---- MODULE Spec2Model ----
(***************************************************************************)
(* A model of the streaming markup reader of package sax (src/sax.go).     *)
(*                                                                         *)
(* Characters are code points (integers), strings are sequences of code    *)
(* points, a Name is a record [NS, Name] and a Node a record with the      *)
(* fields of the Go struct.  The parsing methods of Reader are operators   *)
(* that take the reader r (cursor, stack, listeners, plus the observation  *)
(* logs) and return the reader after the call together with the results    *)
(* of the method.  Loops are recursive operators.                         *)
(***************************************************************************)
EXTENDS Integers, Sequences, FiniteSets, TLC

VARIABLES
    input,      \* the content of the io.Reader given to New
    keep,       \* Reader.keep, the filter
    rs,         \* Reader.rs: the buffered cursor [pos, lastRuneSize]
    stack,      \* Reader.stack: the names of the open elements
    listeners,  \* Reader.listeners: silent and the six callback lists
    nfn,        \* number of callbacks registered so far (callback identity)
    emits,      \* observation: every dispatch (emit*) with the callbacks it ran
    skips,      \* observation: every subtree skip started by Read
    calls       \* observation: every return of Read, Run and of the entity decoder

vars == <<input, keep, rs, stack, listeners, nfn, emits, skips, calls>>

----------------------------------------------------------------------------
(* Characters, src/sax.go:13-34 *)
langle     == 60
rangle     == 62
slash      == 47
equal      == 61
dquote     == 34
squote     == 39
mark       == 63
bang       == 33
tab        == 9
space      == 32
nl         == 10
cr         == 13
underscore == 95
hyphen     == 45
lsquare    == 91
rsquare    == 93
colon      == 58
ampersand  == 38
semicolon  == 59
pound      == 35

(* Errors.  An error is identified by the sentinel it is or wraps, so that *)
(* errors.Is(err, E) is err = E.                                           *)
Nil            == "nil"
ErrSkip        == "skip"
ErrIgnore      == "ignore"
ErrStop        == "stop"
ErrUnsubscribe == "unsubscribe"
ErrChar        == "unepected character"
ErrMalformed   == "malformed document"
io_EOF         == "EOF"
ErrStackEmpty  == "stack is empty"
ErrInvalidUnreadRune == "bufio: invalid use of UnreadRune"
ErrSyntax      == "strconv: invalid syntax"
ErrRange       == "strconv: value out of range"
ErrListener    == "listener error"
ErrKeep        == "keep error"

(* NodeType, src/sax.go:47-55 *)
EOF          == -1
ProcInst     == -2
BeginElement == -3
EndElement   == -4
Text         == -5
CData        == -6
Comment      == -7

NoName == [NS |-> <<>>, Name |-> <<>>]

(* The zero Node; a nil *Node is modelled by it (no node that a parsing   *)
(* method builds has Type 0).                                              *)
NilNode == [Type |-> 0, Name |-> NoName, Attrs |-> <<>>, Content |-> <<>>,
            SelfClosing |-> FALSE]

NameEqual(n, other) == n.NS = other.NS /\ n.Name = other.Name

----------------------------------------------------------------------------
(* Character classes, src/sax.go:810-840 *)
isLetter(c) == (c >= 97 /\ c <= 122) \/ (c >= 65 /\ c <= 90)

isDigit(c) == c >= 48 /\ c <= 57

isName(c) == isLetter(c) \/ isDigit(c) \/ c = hyphen \/ c = underscore

isHex(c) == isDigit(c) \/ (c >= 97 /\ c <= 102) \/ (c >= 65 /\ c <= 70)

isQuote(c) == c = dquote \/ c = squote

isSpace(c) == c = space \/ c = tab

isNL(c) == c = nl \/ c = cr

isBlank(c) == isSpace(c) \/ isNL(c)

(* unicode.IsSpace, used by strings.TrimSpace *)
UnicodeIsSpace(c) ==
    \/ (c >= 9 /\ c <= 13) \/ c = 32 \/ c = 133 \/ c = 160
    \/ c = 5760 \/ (c >= 8192 /\ c <= 8202) \/ c = 8232 \/ c = 8233
    \/ c = 8239 \/ c = 8287 \/ c = 12288

RECURSIVE TrimLeft(_)
TrimLeft(s) ==
    IF s # <<>> /\ UnicodeIsSpace(Head(s)) THEN TrimLeft(Tail(s)) ELSE s

RECURSIVE TrimRight(_)
TrimRight(s) ==
    IF s # <<>> /\ UnicodeIsSpace(s[Len(s)])
    THEN TrimRight(SubSeq(s, 1, Len(s) - 1)) ELSE s

TrimSpace(s) == TrimRight(TrimLeft(s))

(* bytes.Buffer.WriteRune: a rune that is no valid code point is written   *)
(* as U+FFFD.                                                              *)
WriteRune(buf, c) ==
    IF c < 0 \/ c > 1114111 \/ (c >= 55296 /\ c <= 57343)
    THEN Append(buf, 65533) ELSE Append(buf, c)

----------------------------------------------------------------------------
(* The cursor, src/sax.go:784-797, over bufio.Reader's ReadRune/UnreadRune *)
read(r) ==
    IF r.rs.pos < Len(input)
    THEN [r |-> [r EXCEPT !.rs = [pos |-> r.rs.pos + 1, lastRuneSize |-> 1]],
          c |-> input[r.rs.pos + 1], err |-> Nil]
    ELSE [r |-> [r EXCEPT !.rs.lastRuneSize = -1], c |-> 0, err |-> io_EOF]

unread(r) ==
    IF r.rs.lastRuneSize < 0 \/ r.rs.pos < r.rs.lastRuneSize
    THEN [r |-> r, err |-> ErrInvalidUnreadRune]
    ELSE [r |-> [r EXCEPT !.rs = [pos |-> r.rs.pos - r.rs.lastRuneSize,
                                  lastRuneSize |-> -1]],
          err |-> Nil]

peek(r) ==
    LET x == read(r) IN [r |-> unread(x.r).r, c |-> x.c]

unexpectedChar(c) == ErrChar

RECURSIVE skipBlanksLoop(_)
skipBlanksLoop(r) ==
    LET x == read(r) IN
    IF x.err # Nil \/ ~isBlank(x.c) THEN x.r ELSE skipBlanksLoop(x.r)

skipBlanks(r) == unread(skipBlanksLoop(r)).r

(* fn, the closure that want builds, is given by the character it captures *)
wantFunc(r, fn) ==
    LET x == read(r) IN
    IF x.err # Nil THEN [r |-> x.r, err |-> x.err]
    ELSE IF ~(x.c = fn) THEN [r |-> x.r, err |-> unexpectedChar(x.c)]
    ELSE [r |-> x.r, err |-> Nil]

want(r, char) == wantFunc(r, char)

----------------------------------------------------------------------------
(* Entities, src/sax.go:586-663 *)
entities ==
    (<<113, 117, 111, 116>> :> dquote) @@ (<<97, 112, 111, 115>> :> squote)
    @@ (<<108, 116>> :> langle) @@ (<<103, 116>> :> rangle)
    @@ (<<97, 109, 112>> :> ampersand)

baseDec == 10
baseHex == 16

digitVal(c) ==
    IF isDigit(c) THEN c - 48
    ELSE IF c >= 97 /\ c <= 122 THEN c - 97 + 10
    ELSE IF c >= 65 /\ c <= 90 THEN c - 65 + 10
    ELSE 255

(* strconv.ParseInt(s, base, bitSize) on a string without sign: the value, *)
(* a syntax error on the empty string or a digit outside the base, a range *)
(* error (with the largest value) beyond bitSize bits.  acc = -1 marks an  *)
(* overflow, -2 a digit outside the base.                                  *)
RECURSIVE parseUintFrom(_, _, _, _)
parseUintFrom(s, base, max, acc) ==
    IF s = <<>> THEN acc
    ELSE IF digitVal(Head(s)) >= base THEN -2
    ELSE IF acc = -1 \/ acc > (max - digitVal(Head(s))) \div base
         THEN parseUintFrom(Tail(s), base, max, -1)
    ELSE parseUintFrom(Tail(s), base, max, acc * base + digitVal(Head(s)))

ParseInt(s, base, bitSize) ==
    LET max == (2 ^ (bitSize - 2) - 1) * 2 + 1
        then(v) == IF s = <<>> \/ v = -2 THEN [n |-> 0, err |-> ErrSyntax]
                   ELSE IF v = -1 THEN [n |-> max, err |-> ErrRange]
                   ELSE [n |-> v, err |-> Nil]
    IN then(parseUintFrom(s, base, max, 0))

(* accept is isDigit or isHex, given by its name *)
acceptRune(accept, c) == IF accept = "isHex" THEN isHex(c) ELSE isDigit(c)

RECURSIVE parseNumericEntityLoop(_, _, _)
parseNumericEntityLoop(r, accept, buf) ==
    LET x == read(r) IN
    IF x.err # Nil THEN [r |-> x.r, buf |-> buf, err |-> x.err]
    ELSE IF x.c = semicolon THEN [r |-> x.r, buf |-> buf, err |-> Nil]
    ELSE IF ~acceptRune(accept, x.c) THEN [r |-> x.r, buf |-> buf, err |-> unexpectedChar(x.c)]
    ELSE parseNumericEntityLoop(x.r, accept, WriteRune(buf, x.c))

parseNumericEntity(r, base, accept) ==
    LET conv(l, p) == [r |-> l.r, c |-> p.n, err |-> p.err]
        then(l) == IF l.err # Nil THEN [r |-> l.r, c |-> 0, err |-> l.err]
                   ELSE conv(l, ParseInt(l.buf, base, 32))
    IN then(parseNumericEntityLoop(r, accept, <<>>))

RECURSIVE parseStringEntityLoop(_, _)
parseStringEntityLoop(r, buf) ==
    LET x == read(r) IN
    IF x.err # Nil THEN [r |-> x.r, buf |-> buf, err |-> x.err]
    ELSE IF x.c = semicolon THEN [r |-> x.r, buf |-> buf, err |-> Nil]
    ELSE IF ~isLetter(x.c) THEN [r |-> x.r, buf |-> buf, err |-> unexpectedChar(x.c)]
    ELSE parseStringEntityLoop(x.r, WriteRune(buf, x.c))

parseStringEntity(r) ==
    LET then(l) == IF l.err # Nil THEN [r |-> l.r, c |-> 0, err |-> l.err]
                   ELSE IF l.buf \notin DOMAIN entities
                        THEN [r |-> l.r, c |-> 0, err |-> ErrMalformed]
                   ELSE [r |-> l.r, c |-> entities[l.buf], err |-> Nil]
    IN then(parseStringEntityLoop(unread(r).r, <<>>))

parseEntity(r) ==
    LET x == read(r) IN
    IF x.err # Nil THEN [r |-> x.r, c |-> 0, err |-> x.err]
    ELSE IF x.c = pound
         THEN LET y == read(x.r) IN
              IF y.err # Nil THEN [r |-> y.r, c |-> 0, err |-> y.err]
              ELSE IF y.c = 120
                   THEN parseNumericEntity(y.r, baseHex, "isHex")
                   ELSE parseNumericEntity(y.r, baseDec, "isDigit")
    ELSE parseStringEntity(x.r)

----------------------------------------------------------------------------
(* The dispatcher, src/sax.go:691-808.  A callback is [id, kind]; its kind *)
(* is what it does when it is called: "ok" returns nil, "stop" ErrStop,    *)
(* "unsub" ErrUnsubscribe, "fail" an error of its own, and "reg" registers *)
(* a new callback (one that returns nil) in its own category with the On*  *)
(* method of the Reader and returns nil.                                   *)
(* checkListenerError without the test for ErrStop *)
checkListenerErrorKeep(err) == err

(* checkListenerError that lets no error of a callback through *)
checkListenerErrorNone(err) == Nil

checkListenerError(err) == IF err = ErrStop THEN Nil ELSE err

(* On*, src/sax.go:207-229, on the reader r: fn is appended to the list    *)
(* of category cat                                                         *)
On(r, cat, kind) ==
    [r EXCEPT !.nfn = @ + 1,
              !.listeners[cat] = Append(@, [id |-> r.nfn + 1, kind |-> kind])]

(* the call fn(...) of a callback of category cat *)
callFn(r, fn, cat) ==
    CASE fn.kind = "ok" -> [r |-> r, err |-> Nil]
      [] fn.kind = "stop" -> [r |-> r, err |-> ErrStop]
      [] fn.kind = "unsub" -> [r |-> r, err |-> ErrUnsubscribe]
      [] fn.kind = "reg" -> [r |-> On(r, cat, "ok"), err |-> Nil]
      [] OTHER -> [r |-> r, err |-> ErrListener]

(* observation: a dispatch of category cat begins, with the list set0 of   *)
(* the category and the open elements as they are / a callback has run     *)
logEmit(r, cat, arg, set0) ==
    [r EXCEPT !.emits = Append(@, [cat |-> cat, arg |-> arg, pos |-> r.rs.pos,
                                   silent |-> r.listeners.silent, fns |-> <<>>,
                                   set0 |-> set0, stack |-> r.stack])]

logCall(r, fn, err) ==
    [r EXCEPT !.emits[Len(r.emits)].fns =
                  Append(@, [id |-> fn.id, err |-> err, nfn |-> r.nfn])]

RemoveAt(set, i) == SubSeq(set, 1, i - 1) \o SubSeq(set, i + 1, Len(set))

(* the loop of emitNode and emitString without the i-- after a removal *)
RECURSIVE emitLoopNoStepBack(_, _, _, _)
emitLoopNoStepBack(r, set, i, cat) ==
    IF i > Len(set) THEN [r |-> r, set |-> set, err |-> Nil]
    ELSE LET fn == set[i]
             c == callFn(r, fn, cat)
         IN IF c.err # Nil
            THEN IF c.err = ErrUnsubscribe
                 THEN emitLoopNoStepBack(logCall(c.r, fn, c.err), RemoveAt(set, i),
                                         i + 1, cat)
                 ELSE [r |-> logCall(c.r, fn, c.err), set |-> set,
                       err |-> checkListenerError(c.err)]
            ELSE emitLoopNoStepBack(logCall(c.r, fn, c.err), set, i + 1, cat)

(* the loop of emitNode and emitString over the list set handed to them;   *)
(* i counts from 1, cat is the category the round is for                   *)
RECURSIVE emitLoop(_, _, _, _)
emitLoop(r, set, i, cat) ==
    IF i > Len(set) THEN [r |-> r, set |-> set, err |-> Nil]
    ELSE LET fn == set[i]
             c == callFn(r, fn, cat)
         IN IF c.err # Nil
            THEN IF c.err = ErrUnsubscribe
                 THEN emitLoop(logCall(c.r, fn, c.err), RemoveAt(set, i), i, cat)
                 ELSE [r |-> logCall(c.r, fn, c.err), set |-> set,
                       err |-> checkListenerError(c.err)]
            ELSE emitLoop(logCall(c.r, fn, c.err), set, i + 1, cat)

emitNode(r, n, set, cat) == emitLoop(r, set, 1, cat)

emitString(r, str, set, cat) == emitLoop(r, set, 1, cat)

(* the five emit methods that go through emitNode or emitString: the list  *)
(* of the category is replaced by the list the round returns               *)
emitBegin(r, n) ==
    LET then(e) == [r |-> [e.r EXCEPT !.listeners.begins = e.set], err |-> e.err] IN
    IF r.listeners.silent THEN [r |-> logEmit(r, "begin", n, r.listeners.begins), err |-> Nil]
    ELSE then(emitNode(logEmit(r, "begin", n, r.listeners.begins), n,
                       r.listeners.begins, "begins"))

emitEnd(r, n) ==
    LET then(e) == [r |-> [e.r EXCEPT !.listeners.ends = e.set], err |-> e.err] IN
    IF r.listeners.silent THEN [r |-> logEmit(r, "end", n, r.listeners.ends), err |-> Nil]
    ELSE then(emitNode(logEmit(r, "end", n, r.listeners.ends), n,
                       r.listeners.ends, "ends"))

emitInst(r, n) ==
    LET then(e) == [r |-> [e.r EXCEPT !.listeners.insts = e.set], err |-> e.err] IN
    IF r.listeners.silent THEN [r |-> logEmit(r, "inst", n, r.listeners.insts), err |-> Nil]
    ELSE then(emitNode(logEmit(r, "inst", n, r.listeners.insts), n,
                       r.listeners.insts, "insts"))

emitText(r, str) ==
    LET then(e) == [r |-> [e.r EXCEPT !.listeners.texts = e.set], err |-> e.err] IN
    IF r.listeners.silent THEN [r |-> logEmit(r, "text", str, r.listeners.texts), err |-> Nil]
    ELSE then(emitString(logEmit(r, "text", str, r.listeners.texts), str,
                         r.listeners.texts, "texts"))

emitComment(r, str) ==
    LET then(e) == [r |-> [e.r EXCEPT !.listeners.comments = e.set], err |-> e.err] IN
    IF r.listeners.silent
    THEN [r |-> logEmit(r, "comment", str, r.listeners.comments), err |-> Nil]
    ELSE then(emitString(logEmit(r, "comment", str, r.listeners.comments), str,
                         r.listeners.comments, "comments"))

(* the loop of emitAttr, on the list of the Reader itself *)
RECURSIVE emitAttrLoop(_, _)
emitAttrLoop(r, i) ==
    IF i > Len(r.listeners.attrs) THEN [r |-> r, err |-> Nil]
    ELSE LET fn == r.listeners.attrs[i]
             c == callFn(r, fn, "attrs")
         IN IF c.err # Nil
            THEN IF c.err = ErrUnsubscribe
                 THEN emitAttrLoop([logCall(c.r, fn, c.err) EXCEPT
                                       !.listeners.attrs = RemoveAt(@, i)], i)
                 ELSE [r |-> logCall(c.r, fn, c.err), err |-> checkListenerError(c.err)]
            ELSE emitAttrLoop(logCall(c.r, fn, c.err), i + 1)

emitAttr(r, n, str) ==
    IF r.listeners.silent
    THEN [r |-> logEmit(r, "attr", <<n, str>>, r.listeners.attrs), err |-> Nil]
    ELSE emitAttrLoop(logEmit(r, "attr", <<n, str>>, r.listeners.attrs), 1)

----------------------------------------------------------------------------
(* Names, values and attribute lists, src/sax.go:482-584 *)
RECURSIVE parseNameLoop(_, _)
parseNameLoop(r, buf) ==
    LET x == read(r) IN
    IF x.err # Nil THEN [r |-> x.r, s |-> <<>>, err |-> x.err]
    ELSE IF ~isName(x.c)
         THEN LET u == unread(x.r) IN [r |-> u.r, s |-> buf, err |-> u.err]
    ELSE parseNameLoop(x.r, WriteRune(buf, x.c))

(* the closure parse of parseName *)
parseNamePart(r) ==
    LET x == read(r) IN
    IF x.err # Nil THEN [r |-> x.r, s |-> <<>>, err |-> x.err]
    ELSE IF ~isLetter(x.c) THEN [r |-> x.r, s |-> <<>>, err |-> unexpectedChar(x.c)]
    ELSE parseNameLoop(x.r, WriteRune(<<>>, x.c))

parseName(r) ==
    LET local(p, q) == [r |-> q.r, name |-> [NS |-> p.s, Name |-> q.s], err |-> q.err]
        after(p, k) ==
            IF k.c # colon
            THEN [r |-> k.r, name |-> [NS |-> <<>>, Name |-> p.s], err |-> Nil]
            ELSE local(p, parseNamePart(read(k.r).r))
        then(p) ==
            IF p.err # Nil
            THEN [r |-> p.r, name |-> [NS |-> <<>>, Name |-> p.s], err |-> p.err]
            ELSE after(p, peek(p.r))
    IN then(parseNamePart(r))

RECURSIVE parseValueLoop(_, _, _)
parseValueLoop(r, quote, buf) ==
    LET x == read(r)
        then(e) == IF e.err # Nil THEN [r |-> e.r, s |-> <<>>, err |-> e.err]
                   ELSE parseValueLoop(e.r, quote, WriteRune(buf, e.c))
    IN IF x.err # Nil THEN [r |-> x.r, s |-> <<>>, err |-> x.err]
       ELSE IF x.c = quote THEN [r |-> x.r, s |-> TrimSpace(buf), err |-> Nil]
       ELSE IF x.c = ampersand THEN then(parseEntity(x.r))
       ELSE then([r |-> x.r, c |-> x.c, err |-> Nil])

parseValue(r) ==
    LET x == read(r) IN
    IF x.err # Nil THEN [r |-> x.r, s |-> <<>>, err |-> x.err]
    ELSE IF ~isQuote(x.c) THEN [r |-> x.r, s |-> <<>>, err |-> unexpectedChar(x.c)]
    ELSE parseValueLoop(x.r, x.c, <<>>)

(* parseAttributes; the result n is the node with the attributes appended. *)
(* A method that makes several calls is written as a chain of steps, each  *)
(* taking the result of the call before it; the steps are listed last      *)
(* first.                                                                  *)
RECURSIVE parseAttributesLoop(_, _, _)
parseAttributeEmit(n, seen, name, e) ==
    IF e.err # Nil THEN [r |-> e.r, n |-> n, err |-> e.err]
    ELSE parseAttributesLoop(skipBlanks(e.r), n, seen \cup {name})

parseAttributeValue(n, seen, name, v) ==
    IF v.err # Nil THEN [r |-> v.r, n |-> n, err |-> v.err]
    ELSE parseAttributeEmit([n EXCEPT !.Attrs = Append(@, [Name |-> name, Value |-> v.s])],
                            seen, name, emitAttr(v.r, name, v.s))

parseAttributeEqual(n, seen, name, w) ==
    IF w.err # Nil THEN [r |-> w.r, n |-> n, err |-> w.err]
    ELSE parseAttributeValue(n, seen, name, parseValue(skipBlanks(w.r)))

(* the step without the test of seen *)
parseAttributeNameUnseen(n, seen, a) ==
    IF a.err # Nil THEN [r |-> a.r, n |-> n, err |-> a.err]
    ELSE parseAttributeEqual(n, seen, a.name, want(skipBlanks(a.r), equal))

parseAttributeName(n, seen, a) ==
    IF a.err # Nil THEN [r |-> a.r, n |-> n, err |-> a.err]
    ELSE IF a.name \in seen THEN [r |-> a.r, n |-> n, err |-> ErrMalformed]
    ELSE parseAttributeEqual(n, seen, a.name, want(skipBlanks(a.r), equal))

parseAttributesLoop(r, n, seen) ==
    LET x == read(r) IN
    IF x.err # Nil THEN [r |-> x.r, n |-> n, err |-> x.err]
    ELSE IF ~isName(x.c)
         THEN LET u == unread(x.r) IN [r |-> u.r, n |-> n, err |-> u.err]
    ELSE parseAttributeName(n, seen, parseName(unread(x.r).r))

parseAttributes(r, n) == parseAttributesLoop(r, n, {})

----------------------------------------------------------------------------
(* The token parsers, src/sax.go:304-480 *)
RECURSIVE parseDataLoop(_, _)
parseDataLoop(r, buf) ==
    LET x == read(r) IN
    IF x.err # Nil THEN [r |-> x.r, buf |-> buf, err |-> x.err]
    ELSE IF x.c = rsquare /\ peek(x.r).c = x.c
         THEN LET y == read(read(peek(x.r).r).r) IN
              IF y.c = rangle THEN [r |-> y.r, buf |-> buf, err |-> Nil]
              ELSE [r |-> y.r, buf |-> buf, err |-> ErrMalformed]
    ELSE parseDataLoop(IF x.c = rsquare THEN peek(x.r).r ELSE x.r,
                       WriteRune(buf, x.c))

parseDataEmit(n, e) ==
    IF e.err # Nil THEN [r |-> e.r, n |-> NilNode, err |-> e.err]
    ELSE [r |-> e.r, n |-> n, err |-> Nil]

parseDataBody(name, l) ==
    IF l.err # Nil THEN [r |-> l.r, n |-> NilNode, err |-> l.err]
    ELSE parseDataEmit([NilNode EXCEPT !.Type = CData, !.SelfClosing = TRUE,
                                       !.Name = name,
                                       !.Content = TrimSpace(l.buf)],
                       emitText(l.r, TrimSpace(l.buf)))

parseDataOpen(name, w) ==
    IF w.err # Nil THEN [r |-> w.r, n |-> NilNode, err |-> w.err]
    ELSE parseDataBody(name, parseDataLoop(skipBlanks(w.r), <<>>))

parseDataName(nm) ==
    IF nm.err # Nil THEN [r |-> nm.r, n |-> NilNode, err |-> nm.err]
    ELSE IF nm.name.Name # <<67, 68, 65, 84, 65>>
         THEN [r |-> nm.r, n |-> NilNode, err |-> ErrMalformed]
    ELSE parseDataOpen(nm.name, want(nm.r, lsquare))

parseDataWant(w) ==
    IF w.err # Nil THEN [r |-> w.r, n |-> NilNode, err |-> w.err]
    ELSE parseDataName(parseName(w.r))

parseData(r) == parseDataWant(want(r, lsquare))

(* the body of the loop of parseComment from "if c == ampersand" on *)
RECURSIVE parseCommentLoop(_, _)
parseCommentTail(r, c, buf) ==
    LET then(e) == IF e.err # Nil THEN [r |-> e.r, buf |-> buf, err |-> e.err]
                   ELSE parseCommentLoop(e.r, WriteRune(buf, e.c))
    IN IF c = ampersand THEN then(parseEntity(r))
       ELSE then([r |-> r, c |-> c, err |-> Nil])

parseCommentLoop(r, buf) ==
    LET x == read(r)
    IN IF x.err # Nil THEN [r |-> x.r, buf |-> buf, err |-> x.err]
       ELSE IF x.c = hyphen /\ peek(x.r).c = x.c
            THEN LET y == read(read(peek(x.r).r).r) IN
                 IF y.c = rangle THEN [r |-> y.r, buf |-> buf, err |-> Nil]
                 ELSE parseCommentTail(y.r, y.c,
                                       WriteRune(WriteRune(buf, hyphen), hyphen))
       ELSE parseCommentTail(IF x.c = hyphen THEN peek(x.r).r ELSE x.r, x.c, buf)

parseCommentEmit(n, e) ==
    IF e.err # Nil THEN [r |-> e.r, n |-> NilNode, err |-> e.err]
    ELSE [r |-> e.r, n |-> n, err |-> Nil]

parseCommentBody(l) ==
    IF l.err # Nil THEN [r |-> l.r, n |-> NilNode, err |-> l.err]
    ELSE parseCommentEmit([NilNode EXCEPT !.Type = Comment, !.SelfClosing = TRUE,
                                          !.Content = TrimSpace(l.buf)],
                          emitComment(l.r, TrimSpace(l.buf)))

parseComment(r) ==
    LET x == read(r) IN
    IF ~(x.c = hyphen /\ peek(x.r).c = x.c)
    THEN [r |-> IF x.c = hyphen THEN peek(x.r).r ELSE x.r,
          n |-> NilNode, err |-> unexpectedChar(x.c)]
    ELSE parseCommentBody(parseCommentLoop(skipBlanks(read(peek(x.r).r).r), <<>>))

RECURSIVE parseTextLoop(_, _)
parseTextLoop(r, buf) ==
    LET x == read(r)
        then(e) == IF e.err # Nil THEN [r |-> e.r, buf |-> buf, err |-> e.err]
                   ELSE parseTextLoop(e.r, WriteRune(buf, e.c))
    IN IF x.err # Nil THEN [r |-> x.r, buf |-> buf, err |-> x.err]
       ELSE IF x.c = langle THEN [r |-> x.r, buf |-> buf, err |-> Nil]
       ELSE IF x.c = ampersand THEN then(parseEntity(x.r))
       ELSE then([r |-> x.r, c |-> x.c, err |-> Nil])

parseTextEmit(n, e) ==
    IF e.err # Nil THEN [r |-> e.r, n |-> NilNode, err |-> e.err]
    ELSE LET u == unread(e.r) IN [r |-> u.r, n |-> n, err |-> u.err]

parseTextBody(l) ==
    IF l.err # Nil THEN [r |-> l.r, n |-> NilNode, err |-> l.err]
    ELSE parseTextEmit([NilNode EXCEPT !.Type = Text, !.Content = TrimSpace(l.buf)],
                       emitText(l.r, TrimSpace(l.buf)))

parseText(r) == parseTextBody(parseTextLoop(r, <<>>))

parseInstructionAttrs(a) ==
    IF a.err # Nil THEN [r |-> a.r, n |-> NilNode, err |-> a.err]
    ELSE LET w == want(a.r, mark) IN
         IF w.err # Nil THEN [r |-> w.r, n |-> NilNode, err |-> w.err]
         ELSE LET w2 == want(w.r, rangle) IN
              [r |-> w2.r, n |-> a.n, err |-> w2.err]

parseInstructionEmit(n, e) ==
    IF e.err # Nil THEN [r |-> e.r, n |-> NilNode, err |-> e.err]
    ELSE parseInstructionAttrs(parseAttributes(skipBlanks(e.r), n))

parseInstructionName(nm) ==
    IF nm.err # Nil THEN [r |-> nm.r, n |-> NilNode, err |-> nm.err]
    ELSE parseInstructionEmit([NilNode EXCEPT !.Type = ProcInst, !.SelfClosing = TRUE,
                                              !.Name = nm.name],
                              emitInst(nm.r, nm.name))

parseInstruction(r) == parseInstructionName(parseName(r))

parseEndElementEmit(n, e) ==
    IF e.err # Nil THEN [r |-> e.r, n |-> NilNode, err |-> e.err]
    ELSE LET w == want(skipBlanks(e.r), rangle) IN
         [r |-> w.r, n |-> n, err |-> w.err]

parseEndElementName(nm) ==
    IF nm.err # Nil THEN [r |-> nm.r, n |-> NilNode, err |-> nm.err]
    ELSE parseEndElementEmit([NilNode EXCEPT !.Type = EndElement, !.Name = nm.name],
                             emitEnd(nm.r, nm.name))

parseEndElement(r) == parseEndElementName(parseName(r))

parseOpenElementAttrs(a) ==
    IF a.err # Nil THEN [r |-> a.r, n |-> NilNode, err |-> a.err]
    ELSE LET x == read(a.r) IN
         IF x.err # Nil \/ x.c = rangle
         THEN [r |-> x.r, n |-> a.n, err |-> x.err]
         ELSE IF x.c # slash
              THEN [r |-> x.r, n |-> NilNode, err |-> unexpectedChar(x.c)]
         ELSE LET w == want(x.r, rangle) IN
              [r |-> w.r, n |-> [a.n EXCEPT !.SelfClosing = TRUE], err |-> w.err]

parseOpenElementEmit(n, e) ==
    IF e.err # Nil THEN [r |-> e.r, n |-> NilNode, err |-> e.err]
    ELSE parseOpenElementAttrs(parseAttributes(skipBlanks(e.r), n))

(* the start tag without its begin-element event *)
parseOpenElementNameQuiet(nm) ==
    IF nm.err # Nil THEN [r |-> nm.r, n |-> NilNode, err |-> nm.err]
    ELSE parseOpenElementEmit([NilNode EXCEPT !.Type = BeginElement, !.Name = nm.name],
                              [r |-> nm.r, err |-> Nil])

parseOpenElementName(nm) ==
    IF nm.err # Nil THEN [r |-> nm.r, n |-> NilNode, err |-> nm.err]
    ELSE parseOpenElementEmit([NilNode EXCEPT !.Type = BeginElement, !.Name = nm.name],
                              emitBegin(nm.r, nm.name))

parseOpenElement(r) == parseOpenElementName(parseName(r))

----------------------------------------------------------------------------
(* The open-element stack and the scan step, src/sax.go:153-155, 235-302 *)
Depth(r) == Len(r.stack)

(* push without the test of SelfClosing *)
pushAlways(r, n) == [r EXCEPT !.stack = Append(@, n.Name)]

push(r, n) ==
    IF n.SelfClosing THEN r ELSE [r EXCEPT !.stack = Append(@, n.Name)]

pop(r, n) ==
    LET z == Len(r.stack) IN
    IF z = 0 THEN [r |-> r, err |-> ErrStackEmpty]
    ELSE IF ~NameEqual(r.stack[z], n.Name) THEN [r |-> r, err |-> ErrMalformed]
    ELSE [r |-> [r EXCEPT !.stack = SubSeq(@, 1, z - 1)], err |-> Nil]

(* the switch of parseNode on the character c after "<" *)
(* the close tag without the pop that validates it *)
parseNodeEndUnchecked(e) == e

parseNodeEnd(e) ==
    IF e.err # Nil THEN e
    ELSE LET p == pop(e.r, e.n) IN [r |-> p.r, n |-> e.n, err |-> p.err]

parseNodeOpen(o) ==
    IF o.err # Nil THEN o
    ELSE [r |-> push(o.r, o.n), n |-> o.n, err |-> Nil]

parseNodeSwitch(r, c) ==
    IF c = mark THEN parseInstruction(r)
    ELSE IF c = bang
         THEN LET x == read(r)
                  u == unread(x.r).r
              IN IF x.c = lsquare THEN parseData(u)
                 ELSE IF x.c = hyphen THEN parseComment(u)
                 ELSE [r |-> u, n |-> NilNode, err |-> unexpectedChar(x.c)]
    ELSE IF c = slash THEN parseNodeEnd(parseEndElement(r))
    ELSE IF isLetter(c) THEN parseNodeOpen(parseOpenElement(unread(r).r))
    ELSE [r |-> r, n |-> NilNode, err |-> unexpectedChar(c)]

parseNodeBlanks(s) == [r |-> skipBlanks(s.r), n |-> s.n, err |-> s.err]

parseNode(r) ==
    LET x == read(r) IN
    IF x.err # Nil THEN [r |-> x.r, n |-> NilNode, err |-> x.err]
    ELSE parseNodeBlanks(parseNodeSwitch(x.r, x.c))

next(r) ==
    LET x == read(r) IN
    IF x.err # Nil THEN [r |-> x.r, n |-> NilNode, err |-> x.err]
    ELSE IF x.c = langle THEN parseNode(x.r)
    ELSE parseText(unread(x.r).r)

----------------------------------------------------------------------------
(* The pull reader, src/sax.go:118-205 *)
keepAll == [ignTypes |-> {}, ignNames |-> {}, skipTypes |-> {}, errTypes |-> {}]

(* A filter is given by the tokens it ignores (type and local name), the   *)
(* token types it skips and the token types it fails on.                   *)
keepCall(k, t, name) ==
    IF t \in k.ignTypes /\ name.Name \in k.ignNames THEN ErrIgnore
    ELSE IF t \in k.skipTypes THEN ErrSkip
    ELSE IF t \in k.errTypes THEN ErrKeep
    ELSE Nil

silent(r) == [r EXCEPT !.listeners.silent = ~@]

RECURSIVE skipSubtreeLoop(_, _, _)
skipSubtreeNext(n, depth, c) ==
    IF c.err # Nil THEN [r |-> c.r, err |-> c.err]
    ELSE IF Depth(c.r) = depth /\ NameEqual(n.Name, c.n.Name)
         THEN [r |-> c.r, err |-> Nil]
    ELSE skipSubtreeLoop(c.r, n, depth)

skipSubtreeLoop(r, n, depth) == skipSubtreeNext(n, depth, next(r))

(* observation: the skip of n that began with reader r0 ended with l *)
logSkip(r0, n, depth, l) ==
    [l.r EXCEPT !.skips = Append(@, [name |-> n.Name, depth |-> depth,
                                     rs0 |-> r0.rs, stack0 |-> r0.stack,
                                     pos1 |-> l.r.rs.pos, depth1 |-> Depth(l.r),
                                     listeners0 |-> r0.listeners,
                                     listeners1 |-> l.r.listeners,
                                     nemits0 |-> Len(r0.emits),
                                     nemits1 |-> Len(l.r.emits),
                                     err |-> l.err])]

(* the end of the skip without the deferred silent() *)
skipSubtreeDoneLoud(r1, n, depth, l) ==
    [r |-> logSkip(r1, n, depth, l), err |-> l.err]

(* the second silent() is the deferred one *)
skipSubtreeDone(r1, n, depth, l) ==
    [r |-> silent(logSkip(r1, n, depth, l)), err |-> l.err]

skipSubtree(r, n) ==
    IF n.Type # BeginElement \/ n.SelfClosing THEN [r |-> r, err |-> Nil]
    ELSE skipSubtreeDone(silent(r), n, Depth(silent(r)),
                         skipSubtreeLoop(silent(r), n, Depth(silent(r))))

RECURSIVE Read(_, _)
ReadSkipped(k, s) ==
    IF s.err # Nil THEN [r |-> s.r, n |-> NilNode, err |-> s.err]
    ELSE Read(s.r, k)

(* the switch of Read without the case of ErrSkip *)
ReadKeptNoSkipCase(k, x, err) ==
    IF err = ErrIgnore THEN ReadSkipped(k, skipSubtree(x.r, x.n))
    ELSE [r |-> x.r, n |-> x.n, err |-> err]

ReadKept(k, x, err) ==
    IF err = ErrIgnore THEN ReadSkipped(k, skipSubtree(x.r, x.n))
    ELSE IF err = ErrSkip THEN Read(x.r, k)
    ELSE [r |-> x.r, n |-> x.n, err |-> err]

ReadNext(k, x) ==
    IF x.err # Nil THEN [r |-> x.r, n |-> NilNode, err |-> x.err]
    ELSE ReadKept(k, x, keepCall(k, x.n.Type, x.n.Name))

Read(r, k) == ReadNext(k, next(r))

RECURSIVE Run(_, _)
RunRead(k, x) ==
    IF x.err # Nil
    THEN [r |-> x.r, err |-> IF x.err = io_EOF THEN Nil ELSE x.err]
    ELSE Run(x.r, k)

Run(r, k) == RunRead(k, Read(r, k))

----------------------------------------------------------------------------
(* Bounds *)
MaxFrags == 3      \* a document is built from at most MaxFrags fragments
MaxCalls == 5      \* calls of Read and Run on one Reader
MaxRegs  == 2      \* callbacks registered on one Reader
MaxLate  == 0      \* calls of Read and Run after which callbacks are still registered
MaxEnt   == 5      \* characters after "&" given to the entity decoder
MaxBody  == 5      \* characters after "<!--" in a generated comment
MaxAttrs == 3      \* attributes in a generated start tag or instruction

(* Documents: the concatenations of at most MaxFrags of the fragments      *)
(* <a>  </a>  <a/>  <b/>  t  together with some fixed documents.           *)
Frags ==
    { <<60, 97, 62>>, <<60, 47, 97, 62>>, <<60, 97, 47, 62>>,
      <<60, 98, 47, 62>>, <<116>> }

RECURSIVE FragDocs(_)
FragDocs(n) ==
    IF n = 0 THEN {<<>>}
    ELSE LET D == FragDocs(n - 1) IN D \cup {d \o f : d \in D, f \in Frags}

Samples ==
    { \* <a><b>t</b></a>
      <<60, 97, 62, 60, 98, 62, 116, 60, 47, 98, 62, 60, 47, 97, 62>>,
      \* <a>t</a><b/>
      <<60, 97, 62, 116, 60, 47, 97, 62, 60, 98, 47, 62>>,
      \* <a><a/><b/></a>
      <<60, 97, 62, 60, 97, 47, 62, 60, 98, 47, 62, 60, 47, 97, 62>>,
      \* <a></b><a/>
      <<60, 97, 62, 60, 47, 98, 62, 60, 97, 47, 62>>,
      \* <b><a>t</a></b>
      <<60, 98, 62, 60, 97, 62, 116, 60, 47, 97, 62, 60, 47, 98, 62>>,
      \* _<?p v="1"?><!-- c --><n:a x="1" y='&lt;'> t&amp;t <![CDATA[ d ]]></n:a >
      <<32, 60, 63, 112, 32, 118, 61, 34, 49, 34, 63, 62,
        60, 33, 45, 45, 32, 99, 32, 45, 45, 62,
        60, 110, 58, 97, 32, 120, 61, 34, 49, 34, 32, 121, 61, 39, 38, 108, 116, 59, 39, 62,
        32, 116, 38, 97, 109, 112, 59, 116, 32,
        60, 33, 91, 67, 68, 65, 84, 65, 91, 32, 100, 32, 93, 93, 62,
        60, 47, 110, 58, 97, 32, 62>> }

Docs == FragDocs(MaxFrags) \cup Samples

Filters ==
    { keepAll,
      [keepAll EXCEPT !.ignTypes = {BeginElement, EndElement}, !.ignNames = {<<97>>}],
      [keepAll EXCEPT !.skipTypes = {Text}] }

NoListeners ==
    [silent |-> FALSE, begins |-> <<>>, ends |-> <<>>, insts |-> <<>>,
     attrs |-> <<>>, texts |-> <<>>, comments |-> <<>>]

(* the reader as the operators take it, and the state after a call *)
Cur == [rs |-> rs, stack |-> stack, listeners |-> listeners, nfn |-> nfn,
        emits |-> emits, skips |-> skips]

Commit(r) ==
    /\ rs' = r.rs
    /\ stack' = r.stack
    /\ listeners' = r.listeners
    /\ nfn' = r.nfn
    /\ emits' = r.emits
    /\ skips' = r.skips

(* New, src/sax.go:142-151 *)
New(doc, k) ==
    /\ input = doc
    /\ keep = k
    /\ stack = <<>>
    /\ listeners = NoListeners
    /\ nfn = 0
    /\ emits = <<>>
    /\ skips = <<>>
    /\ calls = <<>>
    /\ rs = skipBlanks([rs |-> [pos |-> 0, lastRuneSize |-> -1], stack |-> <<>>,
                        listeners |-> NoListeners, nfn |-> 0,
                        emits |-> <<>>, skips |-> <<>>]).rs

Init == \E doc \in Docs, k \in Filters : New(doc, k)

(* End-of-input has been reported: Read returned io.EOF or Run returned    *)
(* nil.  Every later call reports it again and changes nothing, so the     *)
(* driver stops calling.                                                   *)
Exhausted ==
    /\ calls # <<>>
    /\ calls[Len(calls)].err = (IF calls[Len(calls)].op = "Run" THEN Nil ELSE io_EOF)

(* the call op has returned x: the reader keeps the state x.r, and the     *)
(* return is recorded (Run returns no node) with the depth and the number  *)
(* of dispatches so far                                                    *)
Return(op, x) ==
    /\ Commit(x.r)
    /\ calls' = Append(calls, [op |-> op,
                               n |-> IF op = "Read" THEN x.n ELSE NilNode,
                               err |-> x.err, depth |-> Depth(x.r),
                               nemits |-> Len(x.r.emits)])

DoRead ==
    /\ Len(calls) < MaxCalls
    /\ ~Exhausted
    /\ Return("Read", Read(Cur, keep))
    /\ UNCHANGED <<input, keep>>

DoRun ==
    /\ Len(calls) < MaxCalls
    /\ ~Exhausted
    /\ Return("Run", Run(Cur, keep))
    /\ UNCHANGED <<input, keep>>

(* On*, src/sax.go:207-229, called between the calls of Read and Run *)
Register(cat, kind) ==
    /\ nfn < MaxRegs
    /\ Len(calls) <= MaxLate
    /\ Commit(On(Cur, cat, kind))
    /\ UNCHANGED <<input, keep, calls>>

OnBeginElement(kind) == Register("begins", kind)

OnEndElement(kind) == Register("ends", kind)

OnInstruction(kind) == Register("insts", kind)

OnAttribute(kind) == Register("attrs", kind)

OnText(kind) == Register("texts", kind)

OnComment(kind) == Register("comments", kind)

Next ==
    \/ DoRead
    \/ DoRun
    \/ OnBeginElement("ok")
    \/ OnEndElement("ok")
    \/ OnInstruction("ok")
    \/ OnAttribute("ok")
    \/ OnText("ok")
    \/ OnComment("ok")

Spec == Init /\ [][Next]_vars

----------------------------------------------------------------------------
(* The dispatcher under callbacks of every outcome: the keep-all filter, a *)
(* few documents with several events of each category, and callbacks that  *)
(* return nil, ErrStop, ErrUnsubscribe or an error of their own.           *)
ListenDocs ==
    { \* <a x="1" y="2"><b/>t</a>
      <<60, 97, 32, 120, 61, 34, 49, 34, 32, 121, 61, 34, 50, 34, 62,
        60, 98, 47, 62, 116, 60, 47, 97, 62>>,
      \* <a>t</a><b>u</b>
      <<60, 97, 62, 116, 60, 47, 97, 62, 60, 98, 62, 117, 60, 47, 98, 62>>,
      \* <?p?><!--c--><?q?><!--d-->
      <<60, 63, 112, 63, 62, 60, 33, 45, 45, 99, 45, 45, 62,
        60, 63, 113, 63, 62, 60, 33, 45, 45, 100, 45, 45, 62>> }

Cats == {"begins", "ends", "insts", "attrs", "texts", "comments"}

Kinds == {"ok", "stop", "unsub", "fail"}

InitListen == \E doc \in ListenDocs : New(doc, keepAll)

Subscribe == \E cat \in Cats, kind \in Kinds : Register(cat, kind)

NextListen ==
    \/ Subscribe
    \/ DoRead
    \/ DoRun

SpecListen == InitListen /\ [][NextListen]_vars

(* Callbacks that register a callback of their own category while they run *)
SubscribeReentrant == \E cat \in Cats, kind \in {"ok", "reg"} : Register(cat, kind)

NextReentrant ==
    \/ SubscribeReentrant
    \/ DoRead
    \/ DoRun

SpecReentrant == InitListen /\ [][NextReentrant]_vars

----------------------------------------------------------------------------
(* The pull reader under filters that drop single tokens: filters that     *)
(* skip or ignore tokens by type and local name (text and comment tokens   *)
(* have the empty name), on the documents of Spec, read token by token.    *)
DropFilters ==
    { [keepAll EXCEPT !.skipTypes = {Text}],
      [keepAll EXCEPT !.skipTypes = {BeginElement, EndElement}],
      [keepAll EXCEPT !.ignTypes = {EndElement, Text, Comment, CData, ProcInst},
                      !.ignNames = {<<97>>, <<>>, <<112>>, <<67, 68, 65, 84, 65>>}],
      [keepAll EXCEPT !.ignTypes = {BeginElement}, !.ignNames = {<<97>>},
                      !.skipTypes = {Text}] }

InitFilter == \E doc \in Docs, k \in DropFilters : New(doc, k)

NextFilter == DoRead

SpecFilter == InitFilter /\ [][NextFilter]_vars

----------------------------------------------------------------------------
(* Comments: the input is "<!--" followed by at most MaxBody of the        *)
(* characters  -  >  a  space, or a fixed sample, read with Read.          *)
CommentChars == {hyphen, rangle, 97, space}

RECURSIVE CommentBodies(_)
CommentBodies(n) ==
    IF n = 0 THEN {<<>>}
    ELSE LET B == CommentBodies(n - 1) IN B \cup {Append(b, c) : b \in B, c \in CommentChars}

CommentSamples ==
    { \* " a -- b -->"
      <<32, 97, 32, 45, 45, 32, 98, 32, 45, 45, 62>>,
      \* "a--->t"
      <<97, 45, 45, 45, 62, 116>>,
      \* "a&lt;-->"
      <<97, 38, 108, 116, 59, 45, 45, 62>> }

InitComment ==
    \E b \in CommentBodies(MaxBody) \cup CommentSamples :
        New(<<langle, bang, hyphen, hyphen>> \o b, keepAll)

NextComment ==
    \/ DoRead
    \/ OnComment("ok")

SpecComment == InitComment /\ [][NextComment]_vars

----------------------------------------------------------------------------
(* Attribute lists: the input is the start tag <a ...>, the empty-element  *)
(* tag <a .../> or the instruction <?p ...?> with at most MaxAttrs of the  *)
(* attributes   x="1"   y='2'   n:x="3"   x = "4"   each after a space.    *)
AttrFrags ==
    { [text |-> <<32, 120, 61, 34, 49, 34>>,
       name |-> [NS |-> <<>>, Name |-> <<120>>], value |-> <<49>>],
      [text |-> <<32, 121, 61, 39, 50, 39>>,
       name |-> [NS |-> <<>>, Name |-> <<121>>], value |-> <<50>>],
      [text |-> <<32, 110, 58, 120, 61, 34, 51, 34>>,
       name |-> [NS |-> <<110>>, Name |-> <<120>>], value |-> <<51>>],
      [text |-> <<32, 120, 32, 61, 32, 34, 52, 34>>,
       name |-> [NS |-> <<>>, Name |-> <<120>>], value |-> <<52>>] }

RECURSIVE AttrLists(_)
AttrLists(n) ==
    IF n = 0 THEN {<<>>}
    ELSE LET L == AttrLists(n - 1) IN L \cup {Append(l, f) : l \in L, f \in AttrFrags}

RECURSIVE AttrText(_)
AttrText(l) == IF l = <<>> THEN <<>> ELSE Head(l).text \o AttrText(Tail(l))

TagShapes ==
    { [open |-> <<60, 97>>, close |-> <<62>>],
      [open |-> <<60, 97>>, close |-> <<47, 62>>],
      [open |-> <<60, 63, 112>>, close |-> <<63, 62>>] }

InitAttrs ==
    \E l \in AttrLists(MaxAttrs), t \in TagShapes :
        New(t.open \o AttrText(l) \o t.close, keepAll)

NextAttrs ==
    \/ DoRead
    \/ OnAttribute("ok")

SpecAttrs == InitAttrs /\ [][NextAttrs]_vars

----------------------------------------------------------------------------
(* The entity decoder on its own: the input is "&" followed by at most     *)
(* MaxEnt characters, the cursor stands behind the "&" that parseText,     *)
(* parseValue or parseComment has just read, and parseEntity is called.    *)
EntChars == {pound, semicolon, 120, 49, 50, 51, 97, 103, 116}

RECURSIVE EntBodies(_)
EntBodies(n) ==
    IF n = 0 THEN {<<>>}
    ELSE LET B == EntBodies(n - 1) IN B \cup {Append(b, c) : b \in B, c \in EntChars}

EntSamples ==
    { <<113, 117, 111, 116, 59>>, <<97, 112, 111, 115, 59>>, <<108, 116, 59>>,
      <<97, 109, 112, 59>>, <<35, 120, 50, 49, 59, 116>> }

InitEntity ==
    \E b \in EntBodies(MaxEnt) \cup EntSamples :
        /\ input = <<ampersand>> \o b
        /\ keep = keepAll
        /\ rs = [pos |-> 1, lastRuneSize |-> 1]
        /\ stack = <<>>
        /\ listeners = NoListeners
        /\ nfn = 0
        /\ emits = <<>>
        /\ skips = <<>>
        /\ calls = <<>>

DoParseEntity ==
    /\ calls = <<>>
    /\ LET x == parseEntity(Cur) IN
       /\ Commit(x.r)
       /\ calls' = <<[op |-> "parseEntity", c |-> x.c, err |-> x.err]>>
    /\ UNCHANGED <<input, keep>>

NextEntity == DoParseEntity

SpecEntity == InitEntity /\ [][NextEntity]_vars

----------------------------------------------------------------------------
(* Properties of the entity decoder (SpecEntity) *)

(* the characters between "&" and the first ";" of the input, when there  *)
(* is a ";"                                                                *)
HasSemicolon == \E i \in 2..Len(input) : input[i] = semicolon

EntityBody ==
    LET e == CHOOSE i \in 2..Len(input) :
                 input[i] = semicolon /\ \A j \in 2..(i - 1) : input[j] # semicolon
    IN SubSeq(input, 2, e - 1)

(* the number a digit string writes in a base, most significant digit first *)
RECURSIVE WrittenValue(_, _)
WrittenValue(ds, base) ==
    IF ds = <<>> THEN 0
    ELSE LET d == ds[Len(ds)]
             v == IF d >= 48 /\ d <= 57 THEN d - 48
                  ELSE IF d >= 97 /\ d <= 102 THEN d - 87 ELSE d - 55
         IN WrittenValue(SubSeq(ds, 1, Len(ds) - 1), base) * base + v

IsDecimalEntity(b) ==
    /\ Len(b) >= 2
    /\ b[1] = pound
    /\ \A i \in 2..Len(b) : b[i] >= 48 /\ b[i] <= 57

IsHexEntity(b) ==
    /\ Len(b) >= 3
    /\ b[1] = pound
    /\ b[2] = 120
    /\ \A i \in 3..Len(b) :
          (b[i] >= 48 /\ b[i] <= 57) \/ (b[i] >= 97 /\ b[i] <= 102)
          \/ (b[i] >= 65 /\ b[i] <= 70)

(* C5: a numeric entity decodes to the code point whose value is written:  *)
(* &#D; to the decimal value of D, &#xH; to the hexadecimal value of H,    *)
(* every digit contributing.                                               *)
C5_NumericEntityValue ==
    (calls # <<>> /\ calls[1].op = "parseEntity" /\ HasSemicolon) =>
        /\ IsDecimalEntity(EntityBody) =>
              /\ calls[1].err = Nil
              /\ calls[1].c = WrittenValue(SubSeq(EntityBody, 2, Len(EntityBody)), 10)
        /\ IsHexEntity(EntityBody) =>
              /\ calls[1].err = Nil
              /\ calls[1].c = WrittenValue(SubSeq(EntityBody, 3, Len(EntityBody)), 16)

(* C6: decoding fails with ErrMalformed when the name is none of quot,     *)
(* apos, lt, gt, amp, when a character between &# and ; is no decimal      *)
(* digit, and when a character between &#x and ; is no hex digit.          *)
C6_BadEntityIsMalformed ==
    (calls # <<>> /\ calls[1].op = "parseEntity" /\ HasSemicolon) =>
        LET b == EntityBody
            named == b = <<>> \/ b[1] # pound
            hex == Len(b) >= 2 /\ b[1] = pound /\ b[2] = 120
            dec == Len(b) >= 1 /\ b[1] = pound /\ ~hex
            known == { <<113, 117, 111, 116>>, <<97, 112, 111, 115>>, <<108, 116>>,
                       <<103, 116>>, <<97, 109, 112>> }
        IN /\ (named /\ b \notin known) => calls[1].err = ErrMalformed
           /\ (dec /\ \E i \in 2..Len(b) : ~(b[i] >= 48 /\ b[i] <= 57))
                 => calls[1].err = ErrMalformed
           /\ (hex /\ \E i \in 3..Len(b) :
                        ~((b[i] >= 48 /\ b[i] <= 57) \/ (b[i] >= 97 /\ b[i] <= 102)
                          \/ (b[i] >= 65 /\ b[i] <= 70)))
                 => calls[1].err = ErrMalformed

----------------------------------------------------------------------------
(* Properties of the pull reader (Spec) *)

(* A reader at cursor c with open elements st that dispatches nothing; it  *)
(* is used to look at the tokens that lie ahead of a position.             *)
Probe(c, st) ==
    [rs |-> c, stack |-> st, listeners |-> [NoListeners EXCEPT !.silent = TRUE],
     nfn |-> 0, emits |-> <<>>, skips |-> <<>>]

(* The matching close tag of the element whose start tag has just been    *)
(* pushed on r.stack: the first token ahead after which the stack is back  *)
(* at depth d.  start is the position of its "<", pos the position the     *)
(* scan step that reads it leaves the cursor at.                           *)
RECURSIVE MatchingClose(_, _)
MatchingClose(r, d) ==
    LET c == next(r) IN
    IF c.err # Nil THEN [found |-> FALSE, start |-> 0, pos |-> 0]
    ELSE IF Depth(c.r) = d /\ c.n.Type = EndElement
         THEN [found |-> TRUE, start |-> r.rs.pos, pos |-> c.r.rs.pos]
    ELSE MatchingClose(c.r, d)

SkipClose(sk) == MatchingClose(Probe(sk.rs0, sk.stack0), Len(sk.stack0) - 1)

(* C1: the subtree skip of an ignored element X read at depth d ends at    *)
(* the end-element that names X and returns the stack to depth d: the skip *)
(* succeeds, consumes nothing after that close tag and leaves Depth() = d. *)
C1_SkipEndsAtMatchingClose ==
    \A i \in 1..Len(skips) :
        LET sk == skips[i]
            m == SkipClose(sk)
        IN m.found =>
              /\ sk.err = Nil
              /\ sk.pos1 = m.pos
              /\ sk.depth1 = Len(sk.stack0) - 1

(* C2: no callback is invoked for a token between the start tag of an      *)
(* ignored element and its matching close tag, and the dispatch that       *)
(* follows the matching close tag is not suppressed.                       *)
C2_NoEventsInsideSkippedSubtree ==
    \A i \in 1..Len(skips) :
        LET sk == skips[i]
            m == SkipClose(sk)
        IN m.found =>
              /\ \A j \in 1..Len(emits) :
                    (emits[j].pos >= sk.rs0.pos /\ emits[j].pos <= m.start + 1)
                        => emits[j].fns = <<>>
              /\ \A j \in 1..Len(emits) :
                    (/\ emits[j].pos > m.pos
                     /\ \A k \in 1..Len(emits) :
                           ~(emits[k].pos > m.pos /\ emits[k].pos < emits[j].pos))
                        => ~emits[j].silent

Fatal(err) == err # Nil /\ err # io_EOF

(* C3: once Read has returned a fatal error, every later Read returns an   *)
(* error and no token.                                                     *)
C3_FailedIsTerminal ==
    \A i, j \in 1..Len(calls) :
        (i < j /\ calls[i].op = "Read" /\ Fatal(calls[i].err) /\ calls[j].op = "Read")
            => (calls[j].n = NilNode /\ calls[j].err # Nil)

(* the close tag, if any, that stands complete at the cursor *)
CloseTagAhead ==
    LET a == read(Probe(rs, stack))
        b == read(a.r)
        e == parseEndElement(b.r)
    IN IF a.err = Nil /\ a.c = langle /\ b.err = Nil /\ b.c = slash /\ e.err = Nil
       THEN [found |-> TRUE, name |-> e.n.Name]
       ELSE [found |-> FALSE, name |-> NoName]

(* C4: a Read that parses a close tag whose name differs from the top of   *)
(* the stack, or a close tag while the stack is empty, fails with          *)
(* ErrMalformed and leaves the stack unchanged.                            *)
C4_BadCloseTagIsMalformed ==
    [][(/\ Len(calls') = Len(calls) + 1
        /\ calls'[Len(calls')].op = "Read"
        /\ CloseTagAhead.found
        /\ (stack = <<>> \/ ~NameEqual(stack[Len(stack)], CloseTagAhead.name)))
          => (/\ calls'[Len(calls')].err = ErrMalformed
              /\ calls'[Len(calls')].n = NilNode
              /\ stack' = stack)]_vars

(* Well-formed documents over the element names a and b: one root element, *)
(* an element being an empty-element tag or a start tag, a content of at   *)
(* most two items (text t or elements) and the close tag of the same name. *)
RECURSIVE WellFormedElems(_)
WellFormedElems(k) ==
    IF k = 0 THEN { <<60, 97, 47, 62>>, <<60, 98, 47, 62>> }
    ELSE LET items == WellFormedElems(k - 1) \cup { <<116>> }
             content == {<<>>} \cup items \cup {x \o y : x \in items, y \in items}
         IN WellFormedElems(k - 1)
            \cup {<<60, nm, 62>> \o c \o <<60, 47, nm, 62>> : nm \in {97, 98}, c \in content}

WellFormed == WellFormedElems(2)

(* a sequence of begin/end dispatches is properly nested over the open     *)
(* names st: every end names the innermost open begin, and none stays open *)
RECURSIVE Nested(_, _)
Nested(ev, st) ==
    IF ev = <<>> THEN st = <<>>
    ELSE IF Head(ev).cat = "begin" THEN Nested(Tail(ev), Append(st, Head(ev).arg))
    ELSE /\ st # <<>>
         /\ st[Len(st)] = Head(ev).arg
         /\ Nested(Tail(ev), SubSeq(st, 1, Len(st) - 1))

IsElementEvent(e) == e.cat \in {"begin", "end"}

(* the begin-element and end-element events were all delivered: callbacks  *)
(* of both categories are registered and ran in every such dispatch        *)
ElementEventsDelivered ==
    /\ listeners.begins # <<>>
    /\ listeners.ends # <<>>
    /\ \A j \in 1..Len(emits) : IsElementEvent(emits[j]) => emits[j].fns # <<>>

(* C7: for a well-formed document the begin-element and end-element events *)
(* delivered to the callbacks are properly nested, every begin followed by *)
(* one end of the same name, and Depth() is zero at end-of-input.          *)
C7_EventsProperlyNested ==
    (input \in WellFormed /\ Exhausted /\ ElementEventsDelivered) =>
        /\ Nested(SelectSeq(emits, IsElementEvent), <<>>)
        /\ Len(stack) = 0

IsToken(c) == c.op = "Read" /\ c.err = Nil /\ c.n # NilNode

(* what the tokens returned by the first i calls say the depth is *)
RECURSIVE TokenDepth(_)
TokenDepth(i) ==
    IF i = 0 THEN 0
    ELSE TokenDepth(i - 1)
         + (IF IsToken(calls[i]) /\ calls[i].n.Type = BeginElement
               /\ ~calls[i].n.SelfClosing THEN 1 ELSE 0)
         - (IF IsToken(calls[i]) /\ calls[i].n.Type = EndElement THEN 1 ELSE 0)

OnlyReads == \A i \in 1..Len(calls) : calls[i].op = "Read"

(* C8: with the keep-all filter, after each token returned by Read Depth() *)
(* is the number of non-self-closing begin-element tokens returned so far  *)
(* minus the number of end-element tokens returned so far.                 *)
C8_DepthCountsTokens ==
    (keep = keepAll /\ OnlyReads) =>
        \A i \in 1..Len(calls) : IsToken(calls[i]) => calls[i].depth = TokenDepth(i)

(* <a><b>t</b></a> has been read: begin a, begin b, text t, end b, end a   *)
(* at depths 1, 2, 2, 1, 0                                                 *)
C8_Witness ==
    /\ keep = keepAll
    /\ input = <<60, 97, 62, 60, 98, 62, 116, 60, 47, 98, 62, 60, 47, 97, 62>>
    /\ Len(calls) = 5
    /\ \A i \in 1..5 : IsToken(calls[i])
    /\ [i \in 1..5 |-> calls[i].n.Type]
          = <<BeginElement, BeginElement, Text, EndElement, EndElement>>
    /\ [i \in 1..5 |-> calls[i].depth] = <<1, 2, 2, 1, 0>>

(* C9: end-of-input is reported as success (Read io.EOF, Run nil) only     *)
(* when every opened element has been closed.                              *)
C9_EndOfInputOnlyAtDepthZero == Exhausted => Len(stack) = 0

(* the text run that ends the input: the characters after the last ">"     *)
RECURSIVE TrailingRun(_)
TrailingRun(doc) ==
    IF doc = <<>> \/ doc[Len(doc)] \in {langle, rangle, ampersand, semicolon} THEN <<>>
    ELSE Append(TrailingRun(SubSeq(doc, 1, Len(doc) - 1)), doc[Len(doc)])

EndsWithText ==
    LET t == TrailingRun(input) IN
    /\ TrimSpace(t) # <<>>
    /\ (Len(t) = Len(input) \/ input[Len(input) - Len(t)] = rangle)

(* C10: a text run ended by end of input is dispatched as one text event   *)
(* and returned as one text token before Read reports end-of-input.        *)
C10_TextAtEndOfInput ==
    (/\ keep = keepAll
     /\ OnlyReads
     /\ EndsWithText
     /\ calls # <<>>
     /\ calls[Len(calls)].err = io_EOF
     /\ \A i \in 1..(Len(calls) - 1) : IsToken(calls[i]))
        => /\ Len(calls) >= 2
           /\ calls[Len(calls) - 1].n.Type = Text
           /\ calls[Len(calls) - 1].n.Content = TrimSpace(TrailingRun(input))
           /\ emits # <<>>
           /\ emits[Len(emits)].cat = "text"
           /\ emits[Len(emits)].arg = TrimSpace(TrailingRun(input))

----------------------------------------------------------------------------
(* Properties of the dispatcher (SpecListen) *)

CatList ==
    [begin |-> "begins", end |-> "ends", inst |-> "insts", attr |-> "attrs",
     text |-> "texts", comment |-> "comments"]

Ids(set) == [i \in 1..Len(set) |-> set[i].id]

(* the callbacks that returned err in the round of dispatch j *)
Returned(j, err) ==
    {emits[j].fns[m].id : m \in {q \in 1..Len(emits[j].fns) : emits[j].fns[q].err = err}}

(* the list of the category of dispatch j as the next dispatch of that     *)
(* category finds it, or as it is now                                      *)
ListAfter(j) ==
    LET later == {k \in (j + 1)..Len(emits) : emits[k].cat = emits[j].cat} IN
    IF later = {} THEN listeners[CatList[emits[j].cat]]
    ELSE emits[CHOOSE k \in later : \A k2 \in later : k <= k2].set0

(* of the callbacks that dispatch j found registered, those still          *)
(* registered after it / those that did not unsubscribe in it              *)
StillListed(j) ==
    LET Before(f) == f.id \in {emits[j].set0[q].id : q \in 1..Len(emits[j].set0)}
    IN Ids(SelectSeq(ListAfter(j), Before))

NotUnsubscribed(j) ==
    LET Stays(f) == f.id \notin Returned(j, ErrUnsubscribe)
    IN Ids(SelectSeq(emits[j].set0, Stays))

(* the calls made so far, made on a Reader without callbacks *)
RECURSIVE Replay(_)
Replay(i) ==
    IF i = 0
    THEN [r |-> skipBlanks([Probe([pos |-> 0, lastRuneSize |-> -1], <<>>)
                               EXCEPT !.listeners.silent = FALSE]),
          n |-> NilNode, err |-> Nil]
    ELSE IF calls[i].op = "Read" THEN Read(Replay(i - 1).r, keep)
    ELSE [r |-> Run(Replay(i - 1).r, keep).r, n |-> NilNode,
          err |-> Run(Replay(i - 1).r, keep).err]

NoCallbackFailed ==
    \A j \in 1..Len(emits) : \A m \in 1..Len(emits[j].fns) :
        emits[j].fns[m].err \in {Nil, ErrStop, ErrUnsubscribe}

(* C11: when a callback returns ErrStop no later callback of the category   *)
(* is invoked for the event, the callbacks before it were invoked once     *)
(* each in registration order, the stop removes nothing from the list, and *)
(* the call returns what it returns without callbacks.                     *)
C11_StopEndsRoundOnly ==
    /\ \A j \in 1..Len(emits) : \A m \in 1..Len(emits[j].fns) :
          emits[j].fns[m].err = ErrStop =>
             /\ m = Len(emits[j].fns)
             /\ m <= Len(emits[j].set0)
             /\ \A q \in 1..m : emits[j].fns[q].id = emits[j].set0[q].id
             /\ StillListed(j) = NotUnsubscribed(j)
    /\ NoCallbackFailed =>
          \A i \in 1..Len(calls) :
              calls[i].err = Replay(i).err /\ calls[i].n = Replay(i).n

(* the second of two begin-element callbacks was not invoked because the   *)
(* first returned ErrStop, and Read returned the token                     *)
C11_Witness ==
    /\ Len(listeners.begins) = 2
    /\ listeners.begins[1].kind = "stop"
    /\ Len(calls) = 1
    /\ calls[1].op = "Read"
    /\ calls[1].err = Nil
    /\ calls[1].n.Type = BeginElement
    /\ emits[1].cat = "begin"
    /\ Len(emits[1].fns) = 1
    /\ emits[1].fns[1].err = ErrStop

(* C12: a callback that returns ErrUnsubscribe is removed and not invoked  *)
(* for a later event of the category; every round invokes the callbacks it *)
(* finds registered once each, in registration order, up to one that ends  *)
(* the round, and the others stay registered in their order.               *)
C12_UnsubscribeRemovesOnlyItself ==
    \A j \in 1..Len(emits) :
        ~emits[j].silent =>
           /\ Len(emits[j].fns) <= Len(emits[j].set0)
           /\ \A q \in 1..Len(emits[j].fns) : emits[j].fns[q].id = emits[j].set0[q].id
           /\ Len(emits[j].fns) < Len(emits[j].set0) =>
                 /\ emits[j].fns # <<>>
                 /\ emits[j].fns[Len(emits[j].fns)].err \in {ErrStop, ErrListener}
           /\ StillListed(j) = NotUnsubscribed(j)
           /\ \A k \in (j + 1)..Len(emits) :
                 emits[k].cat = emits[j].cat =>
                    \A q \in 1..Len(emits[k].fns) :
                        emits[k].fns[q].id \notin Returned(j, ErrUnsubscribe)

(* the first of two text callbacks unsubscribed at the first text event;   *)
(* the second was invoked for that event and alone for the next one        *)
C12_Witness ==
    \E j, k \in 1..Len(emits) :
        /\ j < k
        /\ emits[j].cat = "text"
        /\ emits[k].cat = "text"
        /\ Len(emits[j].fns) = 2
        /\ emits[j].fns[1].err = ErrUnsubscribe
        /\ emits[j].fns[2].err = Nil
        /\ Ids(emits[k].fns) = <<emits[j].fns[2].id>>

(* the call that made dispatch j *)
CallOf(j) == CHOOSE i \in 1..Len(calls) :
                 calls[i].nemits >= j /\ \A i2 \in 1..(i - 1) : calls[i2].nemits < j

(* C13: when a callback returns an error other than ErrStop and            *)
(* ErrUnsubscribe the round ends at that callback, the scan ends at that   *)
(* dispatch, and the enclosing Read (or Run) returns that error and no     *)
(* token.                                                                  *)
C13_ListenerErrorAborts ==
    \A j \in 1..Len(emits) : \A m \in 1..Len(emits[j].fns) :
        emits[j].fns[m].err = ErrListener =>
           /\ m = Len(emits[j].fns)
           /\ calls[CallOf(j)].nemits = j
           /\ calls[CallOf(j)].err = ErrListener
           /\ calls[CallOf(j)].n = NilNode

(* the first of two attribute callbacks failed at the first attribute of   *)
(* <a x="1" y="2">: the second was not invoked and Read returned the error *)
C13_Witness ==
    /\ Len(calls) = 1
    /\ calls[1].op = "Read"
    /\ calls[1].err = ErrListener
    /\ calls[1].n = NilNode
    /\ Len(emits) = 2
    /\ emits[2].cat = "attr"
    /\ Len(emits[2].set0) = 2
    /\ Ids(emits[2].fns) = <<emits[2].set0[1].id>>

----------------------------------------------------------------------------
(* Properties of the filter decisions (SpecFilter) *)

(* the scan steps on the document, in order, up to end of input: each with *)
(* its token or its error and the position it leaves the cursor at         *)
RECURSIVE ScanAll(_)
ScanAll(r) ==
    LET x == next(r) IN
    IF x.err = io_EOF THEN <<>>
    ELSE <<[n |-> IF x.err = Nil THEN x.n ELSE NilNode, err |-> x.err,
            pos |-> x.r.rs.pos, nemits0 |-> Len(r.emits),
            nemits |-> Len(x.r.emits)]>> \o ScanAll(x.r)

Scanned == ScanAll(Replay(0).r)

IsSubtree(t) == t.n.Type = BeginElement /\ ~t.n.SelfClosing

Verdict(t) == keepCall(keep, t.n.Type, t.n.Name)

(* keep decides to ignore no non-self-closing begin-element of the input *)
NoSubtreeIgnored ==
    \A q \in 1..Len(Scanned) :
        ~(Scanned[q].err = Nil /\ IsSubtree(Scanned[q])
          /\ Verdict(Scanned[q]) = ErrIgnore)

(* a scan step whose result Read returns: an error, or a token keep does   *)
(* not drop                                                                *)
IsKept(t) == t.err # Nil \/ Verdict(t) \notin {ErrSkip, ErrIgnore}

(* C14: when keep returns ErrSkip, or ErrIgnore for a token that is no     *)
(* non-self-closing begin-element, Read drops that one token and goes on:  *)
(* the Reads return the results of the scan steps that keep does not drop, *)
(* one after the other, each with the cursor where that scan step left it, *)
(* and then end-of-input; silent mode stays off, and no Read returns       *)
(* ErrSkip or ErrIgnore.                                                   *)
C14_SkipAndIgnoreDropOneToken ==
    /\ \A i \in 1..Len(calls) : calls[i].err \notin {ErrSkip, ErrIgnore}
    /\ (OnlyReads /\ NoSubtreeIgnored) =>
          LET K == SelectSeq(Scanned, IsKept) IN
          /\ Len(calls) <= Len(K) + 1
          /\ \A i \in 1..Len(calls) :
                /\ i <= Len(K) => (calls[i].n = K[i].n /\ calls[i].err = K[i].err)
                /\ i = Len(K) + 1 => (calls[i].n = NilNode /\ calls[i].err = io_EOF)
          /\ (calls # <<>> /\ Len(calls) <= Len(K)) => rs.pos = K[Len(calls)].pos
          /\ ~listeners.silent
          /\ skips = <<>>
          /\ \A j \in 1..Len(emits) : ~emits[j].silent

(* <a/>t<b/> under the filter that ignores begin-element a and skips text: *)
(* the first Read drops <a/> and t and returns <b/>                        *)
C14_Witness ==
    /\ input = <<60, 97, 47, 62, 116, 60, 98, 47, 62>>
    /\ keep.ignTypes = {BeginElement}
    /\ Len(calls) = 1
    /\ calls[1].err = Nil
    /\ calls[1].n.Name.Name = <<98>>
    /\ Len(emits) = 3

----------------------------------------------------------------------------
(* Properties of comments (SpecComment) *)

CommentBody == SubSeq(input, 5, Len(input))

(* the places in the comment body where "-->" stands *)
CommentEnds ==
    {i \in 1..(Len(CommentBody) - 2) :
        /\ CommentBody[i] = hyphen
        /\ CommentBody[i + 1] = hyphen
        /\ CommentBody[i + 2] = rangle}

FirstCommentEnd == CHOOSE i \in CommentEnds : \A k \in CommentEnds : i <= k

(* C15: a comment ends at the first "--" that is immediately followed by   *)
(* ">"; every "--" before it stays in the Content; the comment token and   *)
(* the comment event carry the same trimmed content.                       *)
C15_CommentEndsAtFirstTerminator ==
    (/\ calls # <<>>
     /\ CommentEnds # {}
     /\ \A i \in 1..Len(CommentBody) : CommentBody[i] # ampersand)
        => /\ calls[1].err = Nil
           /\ calls[1].n.Type = Comment
           /\ calls[1].n.Content = TrimSpace(SubSeq(CommentBody, 1, FirstCommentEnd - 1))
           /\ emits[1].cat = "comment"
           /\ emits[1].arg = calls[1].n.Content

----------------------------------------------------------------------------
(* Properties of attribute lists (SpecAttrs) *)

(* the attributes written in the input *)
Written ==
    CHOOSE l \in AttrLists(MaxAttrs) :
        \E t \in TagShapes : input = t.open \o AttrText(l) \o t.close

Duplicated(l) == \E i, j \in 1..Len(l) : i < j /\ l[i].name = l[j].name

IsAttrEvent(e) == e.cat = "attr"

(* C16: a second attribute with the qualified name of an earlier one makes *)
(* Read fail with ErrMalformed and return no token; with names pairwise    *)
(* distinct the token lists every attribute once, in source order, and one *)
(* attribute event per attribute is dispatched in that order.              *)
C16_DuplicateAttributeIsMalformed ==
    LET W == Written IN
    calls # <<>> =>
        /\ Duplicated(W) => (calls[1].err = ErrMalformed /\ calls[1].n = NilNode)
        /\ ~Duplicated(W) =>
              /\ calls[1].err = Nil
              /\ calls[1].n.Attrs
                    = [i \in 1..Len(W) |-> [Name |-> W[i].name, Value |-> W[i].value]]
              /\ LET ev == SelectSeq(SubSeq(emits, 1, calls[1].nemits), IsAttrEvent) IN
                 /\ [i \in 1..Len(ev) |-> ev[i].arg]
                      = [i \in 1..Len(W) |-> <<W[i].name, W[i].value>>]
                 /\ \A i \in 1..Len(ev) :
                       ~ev[i].silent /\ Ids(ev[i].fns) = Ids(ev[i].set0)

(* <a x="1" n:x="3" y='2'> was read: three attributes, three events *)
C16_Witness ==
    /\ input = <<60, 97, 32, 120, 61, 34, 49, 34, 32, 110, 58, 120, 61, 34, 51, 34,
                 32, 121, 61, 39, 50, 39, 62>>
    /\ Len(calls) = 1
    /\ Len(calls[1].n.Attrs) = 3
    /\ listeners.attrs # <<>>
    /\ Len(emits) = 4
    /\ emits[3].fns # <<>>

(* <a x="1" x = "4"> was read: Read failed with ErrMalformed *)
C16_WitnessDuplicate ==
    /\ input = <<60, 97, 32, 120, 61, 34, 49, 34, 32, 120, 32, 61, 32, 34, 52, 34, 62>>
    /\ Len(calls) = 1
    /\ calls[1].err = ErrMalformed

----------------------------------------------------------------------------
(* Properties of silent mode (Spec) *)

(* C17: silent mode is off whenever Read (or Run) has returned, whether    *)
(* the subtree skip was completed, ran into the end of the input or was    *)
(* aborted by a scan error; a dispatch in silent mode invokes no callback, *)
(* and the registration lists at the end of a skip are those of its start. *)
C17_SilentModeIsBracketed ==
    /\ ~listeners.silent
    /\ \A j \in 1..Len(emits) : emits[j].silent => emits[j].fns = <<>>
    /\ \A i \in 1..Len(skips) :
          /\ skips[i].listeners0.silent
          /\ skips[i].listeners1 = skips[i].listeners0
          /\ \A j \in 1..Len(emits) :
                (j > skips[i].nemits0 /\ (i < Len(skips) => j <= skips[i + 1].nemits0)
                 /\ emits[j].silent)
                    => emits[j].set0 = skips[i].listeners0[CatList[emits[j].cat]]

(* a skip was aborted by a scan error after events were suppressed while   *)
(* callbacks were registered *)
C17_Witness ==
    /\ \E i \in 1..Len(skips) : skips[i].err \notin {Nil, io_EOF}
    /\ \E j \in 1..Len(emits) : emits[j].silent /\ emits[j].set0 # <<>>
    /\ calls # <<>>

(* a skip ran into the end of the input *)
C17_WitnessEndOfInput ==
    /\ \E i \in 1..Len(skips) : skips[i].err = io_EOF
    /\ \E j \in 1..Len(emits) : emits[j].silent /\ emits[j].set0 # <<>>

(* a skip was completed *)
C17_WitnessCompleted ==
    /\ \E i \in 1..Len(skips) : skips[i].err = Nil
    /\ \E j \in 1..Len(emits) : emits[j].silent /\ emits[j].set0 # <<>>

----------------------------------------------------------------------------
(* Dispatch and the filter (Spec) *)

(* the events of scanning the whole input with next alone: no filter, no   *)
(* callback, silent mode off                                               *)
RECURSIVE ScanEmits(_)
ScanEmits(r) ==
    LET x == next(r) IN
    IF x.err = io_EOF THEN x.r.emits ELSE ScanEmits(x.r)

ScanEvents == ScanEmits(Replay(0).r)

Event(e) == [cat |-> e.cat, arg |-> e.arg, pos |-> e.pos, stack |-> e.stack]

InSkip(j) == \E i \in 1..Len(skips) : skips[i].nemits0 < j /\ j <= skips[i].nemits1

(* the events a start tag with the attributes of n has to give *)
StartTagEvents(n) ==
    <<[cat |-> "begin", arg |-> n.Name]>>
        \o [i \in 1..Len(n.Attrs) |->
               [cat |-> "attr", arg |-> <<n.Attrs[i].Name, n.Attrs[i].Value>>]]

(* C18: the events are those of the scan steps whatever keep decides: the  *)
(* dispatches of the reader are, in order, those of scanning the input     *)
(* without a filter; the scan step of a start tag dispatches begin-element *)
(* and then one attribute event per attribute in source order; a Read that *)
(* returns a token returns after the events of that token; a skip begins   *)
(* after the events of the ignored begin-element, and only the events      *)
(* inside a skip are suppressed, so the events of skipped tokens and of    *)
(* the ignored begin-element were delivered.                               *)
C18_EventsDispatchedInsideScanStep ==
    LET S == Scanned
        E == ScanEvents
    IN
    /\ Len(emits) <= Len(E)
    /\ \A j \in 1..Len(emits) :
          /\ Event(emits[j]) = Event(E[j])
          /\ emits[j].silent <=> InSkip(j)
          /\ ~emits[j].silent => Ids(emits[j].fns) = Ids(emits[j].set0)
    /\ \A q \in 1..Len(S) :
          (S[q].err = Nil /\ S[q].n.Type = BeginElement) =>
              [j \in 1..(S[q].nemits - S[q].nemits0) |->
                  [cat |-> E[S[q].nemits0 + j].cat, arg |-> E[S[q].nemits0 + j].arg]]
                = StartTagEvents(S[q].n)
    /\ \A i \in 1..Len(calls) :
          (calls[i].op = "Read" /\ calls[i].err = Nil) =>
              \E q \in 1..Len(S) :
                  /\ S[q].n = calls[i].n
                  /\ S[q].nemits = calls[i].nemits
                  /\ Verdict(S[q]) \notin {ErrSkip, ErrIgnore}
    /\ \A i \in 1..Len(skips) :
          \E q \in 1..Len(S) :
              /\ S[q].err = Nil
              /\ IsSubtree(S[q])
              /\ S[q].n.Name = skips[i].name
              /\ Verdict(S[q]) = ErrIgnore
              /\ S[q].nemits = skips[i].nemits0

(* the begin-element n:a with its two attributes was ignored after its     *)
(* three events had reached the registered callbacks                       *)
C18_Witness ==
    /\ skips # <<>>
    /\ skips[1].name = [NS |-> <<110>>, Name |-> <<97>>]
    /\ skips[1].nemits0 >= 3
    /\ LET j == skips[1].nemits0 IN
       /\ emits[j - 2].cat = "begin" /\ emits[j - 2].fns # <<>>
       /\ emits[j - 1].cat = "attr" /\ emits[j - 1].fns # <<>>
       /\ emits[j].cat = "attr" /\ emits[j].fns # <<>>

(* a text token was skipped after its event had reached a callback *)
C18_WitnessSkip ==
    /\ keep.skipTypes = {Text}
    /\ \E j \in 1..Len(emits) : emits[j].cat = "text" /\ emits[j].fns # <<>>

----------------------------------------------------------------------------
(* The end-element event and the validation of the close tag (Spec) *)

IsEndEvent(j) == emits[j].cat = "end"

StackTopIs(st, name) == st # <<>> /\ NameEqual(st[Len(st)], name)

(* the name as it is written: prefix, colon, local name *)
QName(name) == IF name.NS = <<>> THEN name.Name ELSE name.NS \o <<colon>> \o name.Name

(* C19 as stated: an end-element callback is invoked only with the name of *)
(* the element on top of the open-element stack.                           *)
C19_EndEventOnlyForAcceptedCloseTag ==
    \A j \in 1..Len(emits) :
        (IsEndEvent(j) /\ emits[j].fns # <<>>) => StackTopIs(emits[j].stack, emits[j].arg)

(* C19 amended: the end-element event is dispatched when the name of the   *)
(* close tag has been read, the cursor directly behind "</" and the name,  *)
(* before ">" is required and before the stack is popped; if the scan step *)
(* accepts the close tag, the token is the end-element of that name and    *)
(* the stack at the dispatch had that name on top.                         *)
C19_EndEventPrecedesValidation ==
    LET S == Scanned IN
    \A j \in 1..Len(emits) :
        IsEndEvent(j) =>
            /\ emits[j].pos >= Len(QName(emits[j].arg)) + 2
            /\ SubSeq(input, emits[j].pos - Len(QName(emits[j].arg)) - 1, emits[j].pos)
                  = <<langle, slash>> \o QName(emits[j].arg)
            /\ \A q \in 1..Len(S) :
                  (S[q].nemits0 < j /\ j <= S[q].nemits /\ S[q].err = Nil) =>
                      /\ S[q].n.Type = EndElement
                      /\ S[q].n.Name = emits[j].arg
                      /\ S[q].nemits = S[q].nemits0 + 1
                      /\ StackTopIs(emits[j].stack, emits[j].arg)

(* <a></b> was read: the callback got the end of b with a on top of the    *)
(* stack, and the Read failed with ErrMalformed                            *)
C19_Witness ==
    /\ Len(calls) = 2
    /\ calls[2].op = "Read"
    /\ calls[2].err = ErrMalformed
    /\ Len(emits) = 2
    /\ IsEndEvent(2)
    /\ emits[2].fns # <<>>
    /\ emits[2].arg = [NS |-> <<>>, Name |-> <<98>>]
    /\ emits[2].stack = <<[NS |-> <<>>, Name |-> <<97>>]>>

(* an accepted close tag: its event was dispatched with its name on top *)
C19_WitnessAccepted ==
    \E j \in 1..Len(emits) :
        /\ IsEndEvent(j) /\ emits[j].fns # <<>>
        /\ StackTopIs(emits[j].stack, emits[j].arg)
        /\ Len(stack) < Len(emits[j].stack)

----------------------------------------------------------------------------
(* Registration from inside a callback (SpecReentrant) *)

(* call m of round j was a callback that registers another one *)
Registers(j, m) ==
    \E q \in 1..Len(emits[j].set0) :
        emits[j].set0[q].id = emits[j].fns[m].id /\ emits[j].set0[q].kind = "reg"

InList(id, set) == \E q \in 1..Len(set) : set[q].id = id

Invoked(id, j) == \E m \in 1..Len(emits[j].fns) : emits[j].fns[m].id = id

(* C20: a callback registered from inside a running callback of its own    *)
(* category is in the list of the category after the round and is invoked  *)
(* for every later event of the category, in each of the six categories.   *)
C20_ReentrantRegistrationKept ==
    \A j \in 1..Len(emits) : \A m \in 1..Len(emits[j].fns) :
        Registers(j, m) =>
            /\ InList(emits[j].fns[m].nfn, listeners[CatList[emits[j].cat]])
            /\ \A j2 \in (j + 1)..Len(emits) :
                  emits[j2].cat = emits[j].cat => Invoked(emits[j].fns[m].nfn, j2)

(* the same for the attribute category alone *)
ReentrantAttributeKept ==
    \A j \in 1..Len(emits) : \A m \in 1..Len(emits[j].fns) :
        (Registers(j, m) /\ emits[j].cat = "attr") =>
            /\ InList(emits[j].fns[m].nfn, listeners.attrs)
            /\ \A j2 \in j..Len(emits) :
                  emits[j2].cat = "attr" => Invoked(emits[j].fns[m].nfn, j2)

(* an attribute callback registered a callback *)
ReentrantAttributeSeen ==
    \E j \in 1..Len(emits) : \E m \in 1..Len(emits[j].fns) :
        Registers(j, m) /\ emits[j].cat = "attr"

====
